---- MODULE Spec2Model ----
(***************************************************************************)
(* dev_activity.py: a watch loop that turns filesystem events under a dev  *)
(* folder into debounced per-project records of an append-only log, and an *)
(* aggregation of that log into day -> project -> count.                   *)
(*                                                                         *)
(* Paths are sequences of segment names (pathlib's parts without the       *)
(* anchor); str(path) is computed character by character.  Instants are    *)
(* whole seconds since the epoch; a calendar date is a day number.         *)
(***************************************************************************)
EXTENDS Integers, Sequences, FiniteSets, TLC

VARIABLES
    clock,      \* the wall clock datetime.now() reads
    log,        \* the lines of activity.jsonl
    last_log,   \* ActivityHandler._last_log: project -> time of last acceptance
    pc,         \* per dispatch thread: the line of the handler it is at
    loc,        \* per dispatch thread: the locals of _record and log_activity
    evt,        \* per dispatch thread: the event it is handling
    outcome,    \* how the last handler call to return ended
    appended,   \* this run's appends: the event, its acceptance time, the line
    loaded,     \* the last load_activity: the whole lines it read, whether a
                \* part of a line followed them, and what it returned
    classified, \* the last get_project_name: root, path and what it returned
    main,       \* run_watch's main thread: the line it is at
    observer,   \* the observer thread: "running", "stopped" or "dead"
    graph       \* the last report generate_graph laid out

vars ==
    <<clock, log, last_log, pc, loc, evt, outcome, appended, loaded,
      classified, main, observer, graph>>

(***************************************************************************)
(* Program constants.                                                      *)
(***************************************************************************)
LOG_FILENAME == "activity.jsonl"

GRAPH_FILENAME == "activity-graph.html"

IGNORED_PATH_PARTS ==
    {".git", "node_modules", ".venv", "__pycache__", ".cursor", ".idea",
     "dist", "build", ".next", ".turbo", ".cache", "vendor", ".DS_Store"}

DEBOUNCE_SECONDS == 300

IGNORED_PROJECTS == {"dev-activity"}

SecondsPerDay == 86400

(***************************************************************************)
(* Bounds of the model.                                                    *)
(***************************************************************************)
MaxLog == 2

MaxDepth == 3

MaxBlocks == 3

(***************************************************************************)
(* The filesystem the watcher runs in.                                     *)
(***************************************************************************)
\* run_watch's dev_path: the watched root, /dev
dev_path == <<"dev">>

\* Path.cwd(): the watcher is started inside project alpha
cwd == <<"dev", "alpha">>

log_path == cwd \o <<LOG_FILENAME>>

graph_path == cwd \o <<GRAPH_FILENAME>>

\* event.dest_path of a move out of the watched tree: the empty string
NoPath == <<>>

\* the symbolic links: one below the root that leads out of it, one outside
\* the root that leads into it
SymLinks ==
    {[from |-> <<"dev", "ln">>, to |-> <<"tmp">>],
     [from |-> <<"tmp", "in">>, to |-> <<"dev", "alpha">>]}

\* paths whose resolution raises OSError
Unresolvable == {<<"dev", "alpha", "enametoolong">>}

OSError == <<"!OSError">>

None == "None"

IsPrefix(s, t) == Len(s) <= Len(t) /\ SubSeq(t, 1, Len(s)) = s

\* Path.resolve(): absolute, symlinks followed
resolve(p) ==
    IF p \in Unresolvable THEN OSError
    ELSE IF \E l \in SymLinks : IsPrefix(l.from, p)
         THEN LET l == CHOOSE l \in SymLinks : IsPrefix(l.from, p)
              IN  l.to \o SubSeq(p, Len(l.from) + 1, Len(p))
         ELSE p

\* str(path) of an absolute POSIX path
RECURSIVE join(_)
join(p) == IF p = <<>> THEN "" ELSE "/" \o Head(p) \o join(Tail(p))

str(p) == IF p = <<>> THEN "/" ELSE join(p)

\* str.startswith
startswith(s, prefix) ==
    Len(prefix) <= Len(s) /\ SubSeq(s, 1, Len(prefix)) = prefix

\* PurePath.relative_to: the parts below `root`, or ValueError
ValueError == <<"!ValueError">>

relative_to(full, root) ==
    IF IsPrefix(root, full) THEN SubSeq(full, Len(root) + 1, Len(full))
    ELSE ValueError

\* get_project_name trusting the string test alone: relative_to's ValueError
\* is not raised, the segment after the root's length is returned
get_project_name_by_string_prefix(dev_root, event_path) ==
    LET full == resolve(event_path)
        root == resolve(dev_root)
    IN  IF full = OSError \/ root = OSError THEN None
        ELSE IF full = root \/ ~startswith(str(full), str(root)) THEN None
        ELSE IF Len(full) <= Len(root) THEN full[Len(full)]
        ELSE full[Len(root) + 1]

get_project_name(dev_root, event_path) ==
    LET full == resolve(event_path)
        root == resolve(dev_root)
    IN  IF full = OSError \/ root = OSError THEN None
        ELSE IF full = root \/ ~startswith(str(full), str(root)) THEN None
        ELSE LET rel == relative_to(full, root)
             IN  IF rel = ValueError THEN None
                 ELSE IF rel = <<>> THEN None
                 ELSE rel[1]

\* should_ignore_path without the loop over the parts
should_ignore_path_outputs_only(path, lp, gp) ==
    LET resolved == resolve(path)
    IN  IF resolved = OSError THEN FALSE
        ELSE resolved = resolve(lp) \/ resolved = resolve(gp)

should_ignore_path(path, lp, gp) ==
    LET resolved == resolve(path)
    IN  IF resolved = OSError THEN FALSE
        ELSE \/ resolved = resolve(lp)
             \/ resolved = resolve(gp)
             \/ \E i \in 1..Len(resolved) : resolved[i] \in IGNORED_PATH_PARTS

(***************************************************************************)
(* Dates and timestamps.                                                   *)
(***************************************************************************)
\* datetime.now().strftime("%Y-%m-%d"): the calendar day of an instant
strftime_date(t) == t \div SecondsPerDay

\* datetime.now().isoformat(): the date, then "T" and the time of day, which
\* nothing reads back and is left out; naive, so no UTC offset follows
isoformat(t) == [date |-> t \div SecondsPerDay, suffix |-> ""]

\* the date portion of a timestamp string: its first ten characters
date_portion(ts) == ts.date

\* <<year, month>> of a day number (proleptic Gregorian, day 0 = 1970-01-01)
year_month(d) ==
    LET z   == d + 719468
        era == z \div 146097
        doe == z - era * 146097
        yoe == (doe - doe \div 1460 + doe \div 36524 - doe \div 146096) \div 365
        doy == doe - (365 * yoe + yoe \div 4 - yoe \div 100)
        mp  == (5 * doy + 2) \div 153
        m   == IF mp < 10 THEN mp + 3 ELSE mp - 9
        y   == yoe + era * 400
    IN  <<IF m <= 2 THEN y + 1 ELSE y, m>>

(***************************************************************************)
(* Log lines.  A line is what json.loads makes of it: an object with its   *)
(* date, ts and project members (NoDate, NoTs, "" when the member is       *)
(* missing), another JSON value, text that is not JSON, or nothing.        *)
(***************************************************************************)
NoDate == 0 - 1

NoTs == [date |-> NoDate, suffix |-> ""]

\* json.dumps(entry) + "\n"
json_dumps(entry) ==
    [kind |-> "object", date |-> entry.date, ts |-> entry.ts,
     project |-> entry.project]

Malformed(kind) == [kind |-> kind, date |-> NoDate, ts |-> NoTs, project |-> ""]

\* json.loads(line): "JSONDecodeError", or the value with what .get finds in it
json_loads(line) ==
    IF line.kind \in {"truncated", "text"}
    THEN [err |-> "JSONDecodeError", dict |-> FALSE, date |-> NoDate, project |-> ""]
    ELSE [err |-> "", dict |-> line.kind = "object",
          date |-> line.date, project |-> line.project]

(***************************************************************************)
(* load_activity: by_date is a dict of dicts in insertion order, here a    *)
(* sequence of [date, projs] with projs a sequence of [project, count].    *)
(***************************************************************************)
IndexOfDate(by_date, d) ==
    IF \E i \in 1..Len(by_date) : by_date[i].date = d
    THEN CHOOSE i \in 1..Len(by_date) : by_date[i].date = d
    ELSE 0

IndexOfProject(projs, p) ==
    IF \E i \in 1..Len(projs) : projs[i].project = p
    THEN CHOOSE i \in 1..Len(projs) : projs[i].project = p
    ELSE 0

\* projs[p] = 1 in place of projs[p] += 1
incr_project_overwrite(projs, p) ==
    LET i == IndexOfProject(projs, p)
    IN  IF i = 0 THEN Append(projs, [project |-> p, count |-> 1])
        ELSE [projs EXCEPT ![i].count = 1]

\* projs[p] += 1 on a defaultdict(int)
incr_project(projs, p) ==
    LET i == IndexOfProject(projs, p)
    IN  IF i = 0 THEN Append(projs, [project |-> p, count |-> 1])
        ELSE [projs EXCEPT ![i].count = @ + 1]

\* by_date[d][p] += 1
incr(by_date, d, p) ==
    LET i == IndexOfDate(by_date, d)
    IN  IF i = 0
        THEN Append(by_date, [date |-> d, projs |-> incr_project(<<>>, p)])
        ELSE [by_date EXCEPT ![i].projs = incr_project(@, p)]

\* sorted(by_date): insertion into a list kept ascending by date
RECURSIVE sorted_by_date(_)
sorted_by_date(by_date) ==
    IF by_date = <<>> THEN <<>>
    ELSE LET rest == sorted_by_date(SubSeq(by_date, 1, Len(by_date) - 1))
             x    == by_date[Len(by_date)]
             k    == Cardinality({i \in 1..Len(rest) : rest[i].date < x.date})
         IN  SubSeq(rest, 1, k) \o <<x>> \o SubSeq(rest, k + 1, Len(rest))

\* the loop over the lines, without the except clause of lines 173-174
RECURSIVE load_lines_uncaught(_)
load_lines_uncaught(lines) ==
    IF lines = <<>> THEN [raised |-> "", by_date |-> <<>>]
    ELSE LET before == load_lines_uncaught(SubSeq(lines, 1, Len(lines) - 1))
             line   == lines[Len(lines)]
             v      == json_loads(line)
         IN  IF before.raised # "" THEN before
             ELSE IF line.kind = "blank" THEN before
             ELSE IF v.err = "JSONDecodeError"
                  THEN [raised |-> "JSONDecodeError", by_date |-> <<>>]
             ELSE IF ~v.dict THEN [raised |-> "AttributeError", by_date |-> <<>>]
             ELSE IF v.date # NoDate /\ v.project # ""
                  THEN [raised |-> "",
                        by_date |-> incr(before.by_date, v.date, v.project)]
                  ELSE before

\* the loop over the lines, lines 163-174: what it has built once `lines` are
\* read, or the exception that ended it
RECURSIVE load_lines(_)
load_lines(lines) ==
    IF lines = <<>> THEN [raised |-> "", by_date |-> <<>>]
    ELSE LET before == load_lines(SubSeq(lines, 1, Len(lines) - 1))
             line   == lines[Len(lines)]
             v      == json_loads(line)
         IN  IF before.raised # "" THEN before
             ELSE IF line.kind = "blank" THEN before
             ELSE IF v.err = "JSONDecodeError" THEN before
             ELSE IF ~v.dict THEN [raised |-> "AttributeError", by_date |-> <<>>]
             ELSE IF v.date # NoDate /\ v.project # ""
                  THEN [raised |-> "",
                        by_date |-> incr(before.by_date, v.date, v.project)]
                  ELSE before

load_activity(lines) ==
    LET r == load_lines(lines)
    IN  IF r.raised # "" THEN r
        ELSE [raised |-> "", by_date |-> sorted_by_date(r.by_date)]

(***************************************************************************)
(* generate_graph: the report is the ordered month rows, their day cells   *)
(* and the legend; the markup around them is left out.  A percentage       *)
(* (sum / total) * 100 is kept as the fraction 100 * sum over total.       *)
(***************************************************************************)
PROJECT_HUES == <<0, 30, 60, 120, 180, 220, 260, 300>>

\* project_color: hsl(hue, 55%, 45%)
project_color(project, index) ==
    [hue |-> PROJECT_HUES[(index % Len(PROJECT_HUES)) + 1], lightness |-> 45]

\* project_color_light: hsl(hue, 55%, 55%)
project_color_light(project, index) ==
    [hue |-> PROJECT_HUES[(index % Len(PROJECT_HUES)) + 1], lightness |-> 55]

\* date(y, m, d) as a day number (proleptic Gregorian, day 0 = 1970-01-01)
days_from_civil(y, m, d) ==
    LET yy  == IF m <= 2 THEN y - 1 ELSE y
        era == yy \div 400
        yoe == yy - era * 400
        mp  == (m + 9) % 12
        doy == (153 * mp + 2) \div 5 + d - 1
        doe == yoe * 365 + yoe \div 4 - yoe \div 100 + doy
    IN  era * 146097 + doe - 719468

\* calendar.monthrange(year, month)[1]
monthrange(year, month) ==
    LET ny == IF month = 12 THEN year + 1 ELSE year
        nm == IF month = 12 THEN 1 ELSE month + 1
    IN  days_from_civil(ny, nm, 1) - days_from_civil(year, month, 1)

\* date.weekday(): Monday is 0; day 0 was a Thursday
weekday(d) == (d + 3) % 7

\* lines 198-204: the projects in order of first appearance, the days taken
\* in ascending order and the projects of a day in insertion order
RECURSIVE project_order_from(_, _)
project_order_from(projects, order) ==
    IF projects = <<>> THEN order
    ELSE project_order_from(Tail(projects),
             IF \E i \in 1..Len(order) : order[i] = Head(projects)
             THEN order ELSE Append(order, Head(projects)))

RECURSIVE projects_by_day(_)
projects_by_day(activity) ==
    IF activity = <<>> THEN <<>>
    ELSE [j \in 1..Len(activity[1].projs) |-> activity[1].projs[j].project]
         \o projects_by_day(Tail(activity))

project_order(activity) == project_order_from(projects_by_day(activity), <<>>)

\* line 206: project_index[p]
project_index(order, p) == (CHOOSE i \in 1..Len(order) : order[i] = p) - 1

\* lines 219-226 with < in place of <=: the month of `end` is left out
RECURSIVE months_between_exclusive(_, _, _)
months_between_exclusive(y, m, end) ==
    IF y < end[1] \/ (y = end[1] /\ m < end[2])
    THEN <<<<y, m>>>> \o (IF m + 1 > 12 THEN months_between_exclusive(y + 1, 1, end)
                          ELSE months_between_exclusive(y, m + 1, end))
    ELSE <<>>

\* lines 219-226: the (year, month) pairs from start through end
RECURSIVE months_between(_, _, _)
months_between(y, m, end) ==
    IF y < end[1] \/ (y = end[1] /\ m <= end[2])
    THEN <<<<y, m>>>> \o (IF m + 1 > 12 THEN months_between(y + 1, 1, end)
                          ELSE months_between(y, m + 1, end))
    ELSE <<>>

\* line 244: sorted(projs.items(), key=lambda x: -x[1]), a stable sort
RECURSIVE sorted_by_count(_)
sorted_by_count(projs) ==
    IF projs = <<>> THEN <<>>
    ELSE LET rest == sorted_by_count(SubSeq(projs, 1, Len(projs) - 1))
             x    == projs[Len(projs)]
             k    == Cardinality({i \in 1..Len(rest) : rest[i].count >= x.count})
         IN  SubSeq(rest, 1, k) \o <<x>> \o SubSeq(rest, k + 1, Len(rest))

\* sum(c for _, c in proj_list)
RECURSIVE sum_counts(_)
sum_counts(proj_list) ==
    IF proj_list = <<>> THEN 0
    ELSE Head(proj_list).count + sum_counts(Tail(proj_list))

\* line 246 with > in place of >= at the upper threshold
intensity_above_ten(total) ==
    IF total > 10 THEN "high" ELSE IF total >= 3 THEN "mid" ELSE "low"

\* line 246
intensity(total) ==
    IF total >= 10 THEN "high" ELSE IF total >= 3 THEN "mid" ELSE "low"

\* (sum / total) * 100
percent(sum, total) == [num |-> 100 * sum, den |-> total]

\* lines 250 and 258: the colour of project p in a cell of the given tier
cell_color(order, p, tier) ==
    IF tier = "high" THEN project_color_light(p, project_index(order, p))
    ELSE project_color(p, project_index(order, p))

\* lines 257-262 with each band ending at its own share, not at the running sum
stops_of_shares(order, proj_list, total, tier) ==
    [k \in 1..(2 * Len(proj_list)) |->
        LET i == (k + 1) \div 2
            c == cell_color(order, proj_list[i].project, tier)
        IN  IF k % 2 = 1
            THEN [color |-> c,
                  pct |-> percent(sum_counts(SubSeq(proj_list, 1, i - 1)), total)]
            ELSE [color |-> c, pct |-> percent(proj_list[i].count, total)]]

\* lines 256-262: two colour stops per project, at the running sums
stops(order, proj_list, total, tier) ==
    [k \in 1..(2 * Len(proj_list)) |->
        LET i == (k + 1) \div 2
            c == cell_color(order, proj_list[i].project, tier)
        IN  IF k % 2 = 1
            THEN [color |-> c,
                  pct |-> percent(sum_counts(SubSeq(proj_list, 1, i - 1)), total)]
            ELSE [color |-> c,
                  pct |-> percent(sum_counts(SubSeq(proj_list, 1, i)), total)]]

NoColor == [hue |-> 0 - 1, lightness |-> 0]

\* lines 238-266: the cell of one day; class "none" when nothing was recorded
cell(activity, order, date_key) ==
    LET i == IndexOfDate(activity, date_key)
    IN  IF i = 0 \/ activity[i].projs = <<>>
        THEN [date |-> date_key, class |-> "none", tip |-> <<>>,
              gradient |-> FALSE, color |-> NoColor, stops |-> <<>>]
        ELSE LET proj_list == sorted_by_count(activity[i].projs)
                 total     == sum_counts(activity[i].projs)
                 tier      == intensity(total)
             IN  IF Len(proj_list) = 1
                 THEN [date |-> date_key, class |-> tier, tip |-> proj_list,
                       gradient |-> FALSE,
                       color |-> cell_color(order, proj_list[1].project, tier),
                       stops |-> <<>>]
                 ELSE [date |-> date_key, class |-> tier, tip |-> proj_list,
                       gradient |-> TRUE, color |-> NoColor,
                       stops |-> stops(order, proj_list, total, tier)]

\* lines 230-271: one row, the padding before day 1 and a cell per day
month_row(activity, order, year, month) ==
    LET first_day == days_from_civil(year, month, 1)
    IN  [year |-> year, month |-> month,
         padding |-> weekday(first_day),
         cells |-> [day \in 1..monthrange(year, month) |->
                       cell(activity, order, first_day + day - 1)]]

\* timedelta(days=365)
LookbackDays == 365

\* lines 197-276: the report for what load_activity returned, on day `today`
layout(activity, day_now) ==
    LET order  == project_order(activity)
        first  == IF activity # <<>> THEN activity[1].date
                  ELSE day_now - LookbackDays
        start  == year_month(first)
        months == months_between(start[1], start[2], year_month(day_now))
    IN  [ran |-> TRUE, today |-> day_now,
         month_rows |-> [k \in 1..Len(months) |->
                            month_row(activity, order, months[k][1], months[k][2])],
         legend |-> [k \in 1..Len(order) |->
                        [color |-> project_color(order[k], k - 1), name |-> order[k]]]]

NoGraph == [ran |-> FALSE, today |-> 0, month_rows |-> <<>>, legend |-> <<>>]

(***************************************************************************)
(* The inputs: filesystem events, clock advances, commits, foreign lines.  *)
(***************************************************************************)
EventPaths ==
    {dev_path,
     <<"dev", "alpha", "f.py">>,
     <<"dev", "beta", "f.py">>,
     <<"dev", "alpha", "node_modules", "x.js">>,
     log_path,
     graph_path,
     <<"dev", "dev-activity", "main.py">>,
     <<"dev2", "alpha", "f.py">>,
     <<"tmp", "x.py">>,
     <<"dev", "ln", "g.py">>,
     <<"dev", "alpha", "enametoolong">>}

EventKinds == {"created", "modified", "moved", "deleted"}

\* watchdog's FileSystemEvent: is_directory, src_path, dest_path ("" unless moved)
FileEvent(kind, src_path, dest_path) ==
    [kind |-> kind, is_directory |-> FALSE, src_path |-> src_path,
     dest_path |-> dest_path]

DirEvent(kind, src_path, dest_path) ==
    [kind |-> kind, is_directory |-> TRUE, src_path |-> src_path,
     dest_path |-> dest_path]

Events ==
    {FileEvent("modified", p, NoPath) : p \in EventPaths \ {<<"dev", "beta", "f.py">>}}
    \cup {FileEvent("created", <<"dev", "beta", "f.py">>, NoPath),
          FileEvent("created", <<"dev", "alpha", ".git", "index.lock">>, NoPath),
          FileEvent("deleted", <<"dev", "dev-activity", "old.py">>, NoPath),
          FileEvent("deleted", <<"dev", "alpha", "enametoolong">>, NoPath),
          FileEvent("moved", <<"dev", "beta", "old.py">>, <<"dev", "alpha", "f.py">>),
          FileEvent("moved", <<"dev", "dev-activity", "a.py">>, <<"tmp", "x.py">>),
          FileEvent("moved", <<"dev", "alpha", "f.py">>, NoPath)}
    \cup {DirEvent(k, <<"dev", "alpha", "src">>,
                   IF k = "moved" THEN <<"dev", "alpha", "lib">> ELSE NoPath) :
            k \in EventKinds}

\* a burst of changes in one project, with some noise
BurstEvents ==
    {FileEvent("modified", <<"dev", "alpha", "f.py">>, NoPath),
     FileEvent("moved", <<"dev", "alpha", "f.py~">>, <<"dev", "alpha", "f.py">>),
     FileEvent("created", <<"dev", "alpha", ".git", "index.lock">>, NoPath),
     FileEvent("deleted", <<"dev", "dev-activity", "old.py">>, NoPath)}

NoEvent ==
    [kind |-> "none", is_directory |-> FALSE, src_path |-> NoPath, dest_path |-> NoPath]

\* the instants at which the clock is read: the epoch, one, one and a half
\* and two cooldowns later, and either side of the first midnight
Instants ==
    {0, DEBOUNCE_SECONDS, DEBOUNCE_SECONDS + DEBOUNCE_SECONDS \div 2,
     2 * DEBOUNCE_SECONDS, SecondsPerDay - 1, SecondsPerDay}

\* a commit as `gh search commits --json repository,commit` returns it
Commit(day, repo) ==
    [date_str |-> [date |-> day, suffix |-> "Z"], repo |-> repo]

\* the lists of commits the backfill collaborator may return
BackfillItems ==
    {<<>>,
     <<Commit(0, "alpha"), Commit(0, "alpha")>>,
     <<Commit(31, "dev-activity")>>,
     <<[date_str |-> NoTs, repo |-> "alpha"], Commit(1, "")>>}

BackfillMonths == {<<1970, 1>>, <<1970, 2>>}

\* lines that are not the output of json.dumps on an entry
ForeignLines ==
    {Malformed("truncated"), Malformed("text"), Malformed("value"),
     Malformed("blank"),
     [kind |-> "object", date |-> NoDate, ts |-> NoTs, project |-> "alpha"],
     [kind |-> "object", date |-> 0, ts |-> NoTs, project |-> ""]}

\* the lines json.dumps writes for an entry
EntryLines ==
    {json_dumps([date |-> d, ts |-> [date |-> d, suffix |-> ""], project |-> p]) :
        d \in {0, 1}, p \in {"alpha", "beta"}}

\* the logs a report is laid out for: up to MaxBlocks runs of equal lines,
\* of 2024-01-15 and 2024-03-15
Block(d, p, n) ==
    [i \in 1..n |->
        json_dumps([date |-> d, ts |-> [date |-> d, suffix |-> ""], project |-> p])]

Blocks ==
    LET jan == days_from_civil(2024, 1, 15)
        mar == days_from_civil(2024, 3, 15)
    IN  {Block(jan, "alpha", 1), Block(jan, "alpha", 8), Block(jan, "beta", 1),
         Block(jan, "gamma", 1), Block(mar, "alpha", 1), Block(mar, "beta", 1)}

RECURSIVE LogsOfBlocks(_)
LogsOfBlocks(k) ==
    IF k = 0 THEN {<<>>}
    ELSE {l \o b : l \in LogsOfBlocks(k - 1), b \in Blocks}

GraphLogs == UNION {LogsOfBlocks(k) : k \in 0..MaxBlocks}

\* the instants a report is generated at: noon of 2023-12-31, of 2024-03-15
\* and of 2024-04-01
GraphInstants ==
    {days_from_civil(2023, 12, 31) * SecondsPerDay + 43200,
     days_from_civil(2024, 3, 15) * SecondsPerDay + 43200,
     days_from_civil(2024, 4, 1) * SecondsPerDay + 43200}

\* the names a path is made of when get_project_name is taken on its own
Segments == {"dev", "dev2", "alpha", "ln", "tmp", "in", "enametoolong"}

RECURSIVE PathsOfLength(_)
PathsOfLength(n) ==
    IF n = 0 THEN {<<>>}
    ELSE {Append(p, x) : p \in PathsOfLength(n - 1), x \in Segments}

AllPaths == UNION {PathsOfLength(n) : n \in 1..MaxDepth}

Roots == {<<"dev">>, <<"dev", "alpha">>, <<"tmp", "in">>}

(***************************************************************************)
(* State.                                                                  *)
(***************************************************************************)
\* the threads the event source may call the handler on
Threads == {1, 2}

NoLoc ==
    [src_path |-> NoPath, project |-> None, now |-> 0, last |-> 0,
     date |-> NoDate, ts |-> NoTs]

NotLoaded ==
    [ran |-> FALSE, n |-> 0, torn |-> FALSE, raised |-> "", by_date |-> <<>>]

NotClassified == [ran |-> FALSE, root |-> NoPath, path |-> NoPath, project |-> None]

\* dict.get(key, default)
dict_get(d, key, default) == IF key \in DOMAIN d THEN d[key] ELSE default

\* d[key] = value
dict_set(d, key, value) == (key :> value) @@ d

Init ==
    /\ clock = 0
    /\ log = <<>>
    /\ last_log = <<>>
    /\ pc = [t \in Threads |-> "idle"]
    /\ loc = [t \in Threads |-> NoLoc]
    /\ evt = [t \in Threads |-> NoEvent]
    /\ outcome = "none"
    /\ appended = <<>>
    /\ loaded = NotLoaded
    /\ classified = NotClassified
    /\ main = "L150"
    /\ observer = "running"
    /\ graph = NoGraph

\* what a reader finds in the log file: its lines, then the part of a line
\* that a write in progress has put there
file_lines ==
    log \o (IF \E t \in Threads : pc[t] = "L86" THEN <<Malformed("truncated")>>
            ELSE <<>>)

\* datetime.now().date()
today == clock \div SecondsPerDay

\* the graph command run on a log that earlier runs have left
InitGraph ==
    /\ clock \in GraphInstants
    /\ log \in GraphLogs
    /\ last_log = <<>>
    /\ pc = [t \in Threads |-> "idle"]
    /\ loc = [t \in Threads |-> NoLoc]
    /\ evt = [t \in Threads |-> NoEvent]
    /\ outcome = "none"
    /\ appended = <<>>
    /\ loaded = NotLoaded
    /\ classified = NotClassified
    /\ main = "L150"
    /\ observer = "running"
    /\ graph = NoGraph

\* the watcher started when the clock reads two cooldowns past the epoch
InitAppend ==
    /\ clock = 2 * DEBOUNCE_SECONDS
    /\ log = <<>>
    /\ last_log = <<>>
    /\ pc = [t \in Threads |-> "idle"]
    /\ loc = [t \in Threads |-> NoLoc]
    /\ evt = [t \in Threads |-> NoEvent]
    /\ outcome = "none"
    /\ appended = <<>>
    /\ loaded = NotLoaded
    /\ classified = NotClassified
    /\ main = "L150"
    /\ observer = "running"
    /\ graph = NoGraph

(***************************************************************************)
(* The watch loop: ActivityHandler on one dispatch thread t.               *)
(***************************************************************************)
\* a handler returns without having reached log_activity
return_early(t, how) ==
    /\ pc' = [pc EXCEPT ![t] = "idle"]
    /\ loc' = [loc EXCEPT ![t] = NoLoc]
    /\ evt' = [evt EXCEPT ![t] = NoEvent]
    /\ outcome' = how

\* _record, lines 113-120: the filters, then the read of the clock
record(t, e, src_path) ==
    /\ IF should_ignore_path(src_path, log_path, graph_path)
       THEN return_early(t, "noise")
       ELSE LET project == get_project_name(dev_path, src_path)
            IN  IF project = None THEN return_early(t, "not_applicable")
                ELSE IF project \in IGNORED_PROJECTS
                THEN return_early(t, "ignored_project")
                ELSE /\ pc' = [pc EXCEPT ![t] = "L121"]
                     /\ loc' = [loc EXCEPT ![t] =
                                  [src_path |-> src_path, project |-> project,
                                   now |-> clock, last |-> 0, date |-> NoDate,
                                   ts |-> NoTs]]
                     /\ evt' = [evt EXCEPT ![t] = e]
                     /\ outcome' = "running"
    /\ UNCHANGED <<clock, log, last_log, appended, loaded, classified,
                   main, observer, graph>>

\* an event the handler drops before _record
not_recorded(t) ==
    /\ return_early(t, "directory")
    /\ UNCHANGED <<clock, log, last_log, appended, loaded, classified,
                   main, observer, graph>>

on_created(t, e) ==
    /\ observer = "running"
    /\ pc[t] = "idle"
    /\ e.kind = "created"
    /\ IF ~e.is_directory THEN record(t, e, e.src_path) ELSE not_recorded(t)

on_modified(t, e) ==
    /\ observer = "running"
    /\ pc[t] = "idle"
    /\ e.kind = "modified"
    /\ IF ~e.is_directory THEN record(t, e, e.src_path) ELSE not_recorded(t)

on_moved(t, e) ==
    /\ observer = "running"
    /\ pc[t] = "idle"
    /\ e.kind = "moved"
    /\ IF ~e.is_directory /\ e.dest_path # NoPath
       THEN record(t, e, e.dest_path) ELSE not_recorded(t)

on_deleted(t, e) ==
    /\ observer = "running"
    /\ pc[t] = "idle"
    /\ e.kind = "deleted"
    /\ IF ~e.is_directory THEN record(t, e, e.src_path) ELSE not_recorded(t)

\* _record, line 121: last = self._last_log.get(project, 0)
record_get(t) ==
    /\ pc[t] = "L121"
    /\ loc' = [loc EXCEPT ![t].last = dict_get(last_log, loc[t].project, 0)]
    /\ pc' = [pc EXCEPT ![t] = "L122"]
    /\ UNCHANGED <<clock, log, last_log, evt, outcome, appended, loaded,
                   classified,
                   main, observer, graph>>

\* _record without line 124: _last_log is never written
record_debounce_no_update(t) ==
    /\ pc[t] = "L122"
    /\ IF loc[t].now - loc[t].last < DEBOUNCE_SECONDS
       THEN return_early(t, "rejected")
       ELSE /\ pc' = [pc EXCEPT ![t] = "L81"]
            /\ UNCHANGED <<loc, evt, outcome>>
    /\ UNCHANGED <<clock, log, last_log, appended, loaded, classified,
                   main, observer, graph>>

\* _record with line 124 moved above the comparison: a rejected event
\* restarts the window
record_debounce_sliding(t) ==
    /\ pc[t] = "L122"
    /\ last_log' = dict_set(last_log, loc[t].project, loc[t].now)
    /\ IF loc[t].now - loc[t].last < DEBOUNCE_SECONDS
       THEN return_early(t, "rejected")
       ELSE /\ pc' = [pc EXCEPT ![t] = "L81"]
            /\ UNCHANGED <<loc, evt, outcome>>
    /\ UNCHANGED <<clock, log, appended, loaded, classified,
                   main, observer, graph>>

\* _record, lines 122-124: the comparison, then the update of _last_log
record_debounce(t) ==
    /\ pc[t] = "L122"
    /\ IF loc[t].now - loc[t].last < DEBOUNCE_SECONDS
       THEN /\ return_early(t, "rejected")
            /\ UNCHANGED last_log
       ELSE /\ last_log' = dict_set(last_log, loc[t].project, loc[t].now)
            /\ pc' = [pc EXCEPT ![t] = "L81"]
            /\ UNCHANGED <<loc, evt, outcome>>
    /\ UNCHANGED <<clock, log, appended, loaded, classified,
                   main, observer, graph>>

\* log_activity, line 81: the first read of the clock, for "date"
log_activity_date(t) ==
    /\ pc[t] = "L81"
    /\ loc' = [loc EXCEPT ![t].date = strftime_date(clock)]
    /\ pc' = [pc EXCEPT ![t] = "L82"]
    /\ UNCHANGED <<clock, log, last_log, evt, outcome, appended, loaded,
                   classified,
                   main, observer, graph>>

\* log_activity with the file opened in mode "w": what was there is lost
log_activity_write_truncating(t) ==
    /\ pc[t] = "L82"
    /\ Len(log) < MaxLog
    /\ LET entry == [date |-> loc[t].date, ts |-> isoformat(clock),
                     project |-> loc[t].project]
           line  == json_dumps(entry)
       IN  /\ log' = <<line>>
           /\ appended' = Append(appended,
                                 [evt |-> evt[t], now |-> loc[t].now, line |-> line])
    /\ pc' = [pc EXCEPT ![t] = "idle"]
    /\ loc' = [loc EXCEPT ![t] = NoLoc]
    /\ evt' = [evt EXCEPT ![t] = NoEvent]
    /\ outcome' = "logged"
    /\ UNCHANGED <<clock, last_log, loaded, classified, main, observer, graph>>

\* log_activity writing its line twice
log_activity_write_twice(t) ==
    /\ pc[t] = "L82"
    /\ Len(log) < MaxLog
    /\ LET entry == [date |-> loc[t].date, ts |-> isoformat(clock),
                     project |-> loc[t].project]
           line  == json_dumps(entry)
       IN  /\ log' = log \o <<line, line>>
           /\ appended' = Append(appended,
                                 [evt |-> evt[t], now |-> loc[t].now, line |-> line])
    /\ pc' = [pc EXCEPT ![t] = "idle"]
    /\ loc' = [loc EXCEPT ![t] = NoLoc]
    /\ evt' = [evt EXCEPT ![t] = NoEvent]
    /\ outcome' = "logged"
    /\ UNCHANGED <<clock, last_log, loaded, classified,
                   main, observer, graph>>

\* log_activity, lines 82-86: the second read, for "ts", and the append
log_activity_write(t) ==
    /\ pc[t] = "L82"
    /\ Len(log) < MaxLog
    /\ LET entry == [date |-> loc[t].date, ts |-> isoformat(clock),
                     project |-> loc[t].project]
           line  == json_dumps(entry)
       IN  /\ log' = Append(log, line)
           /\ appended' = Append(appended,
                                 [evt |-> evt[t], now |-> loc[t].now, line |-> line])
    /\ pc' = [pc EXCEPT ![t] = "idle"]
    /\ loc' = [loc EXCEPT ![t] = NoLoc]
    /\ evt' = [evt EXCEPT ![t] = NoEvent]
    /\ outcome' = "logged"
    /\ UNCHANGED <<clock, last_log, loaded, classified,
                   main, observer, graph>>

\* lines 82-86 when the line reaches the file in two parts: the first part
\* is in the file, the rest is not yet
log_activity_write_begin(t) ==
    /\ pc[t] = "L82"
    /\ Len(log) < MaxLog
    /\ loc' = [loc EXCEPT ![t].ts = isoformat(clock)]
    /\ pc' = [pc EXCEPT ![t] = "L86"]
    /\ UNCHANGED <<clock, log, last_log, evt, outcome, appended, loaded,
                   classified, main, observer, graph>>

\* the rest of the line reaches the file
log_activity_write_end(t) ==
    /\ pc[t] = "L86"
    /\ LET entry == [date |-> loc[t].date, ts |-> loc[t].ts,
                     project |-> loc[t].project]
           line  == json_dumps(entry)
       IN  /\ log' = Append(log, line)
           /\ appended' = Append(appended,
                                 [evt |-> evt[t], now |-> loc[t].now, line |-> line])
    /\ pc' = [pc EXCEPT ![t] = "idle"]
    /\ loc' = [loc EXCEPT ![t] = NoLoc]
    /\ evt' = [evt EXCEPT ![t] = NoEvent]
    /\ outcome' = "logged"
    /\ UNCHANGED <<clock, last_log, loaded, classified, main, observer, graph>>

\* lines 85-86 with the OSError caught and dropped: the dispatch thread goes on
log_activity_fails_caught(t, partial) ==
    /\ pc[t] = "L82"
    /\ Len(log) < MaxLog
    /\ log' = IF partial THEN Append(log, Malformed("truncated")) ELSE log
    /\ return_early(t, "raised")
    /\ UNCHANGED <<clock, last_log, appended, loaded, classified, main,
                   observer, graph>>

\* lines 85-86 raise OSError (disk full, permission), with part of the line
\* written or none of it.  Nothing in log_activity, _record or on_* catches
\* it: it leaves the handler and ends the thread that called the handler.
log_activity_fails(t, partial) ==
    /\ pc[t] = "L82"
    /\ Len(log) < MaxLog
    /\ log' = IF partial THEN Append(log, Malformed("truncated")) ELSE log
    /\ return_early(t, "raised")
    /\ observer' = "dead"
    /\ UNCHANGED <<clock, last_log, appended, loaded, classified, main, graph>>

\* run_watch, line 152: Ctrl+C raises KeyboardInterrupt in the main thread,
\* which is in observer.join(timeout=1)
KeyboardInterrupt ==
    /\ main = "L150"
    /\ main' = "L153"
    /\ UNCHANGED <<clock, log, last_log, pc, loc, evt, outcome, appended,
                   loaded, classified, observer, graph>>

\* line 153: observer.stop(); from here on the observer takes no new event
observer_stop ==
    /\ main = "L153"
    /\ main' = "L154"
    /\ observer' = IF observer = "running" THEN "stopped" ELSE observer
    /\ UNCHANGED <<clock, log, last_log, pc, loc, evt, outcome, appended,
                   loaded, classified, graph>>

\* line 154: observer.join() returns once the handler call in progress is over
observer_join ==
    /\ main = "L154"
    /\ observer # "running"
    /\ \A t \in Threads : pc[t] = "idle"
    /\ main' = "exited"
    /\ UNCHANGED <<clock, log, last_log, pc, loc, evt, outcome, appended,
                   loaded, classified, observer, graph>>

\* the watcher process ends and run_watch starts again: a new ActivityHandler;
\* a line that was being written stays as far as it got
restart ==
    /\ last_log' = <<>>
    /\ pc' = [t \in Threads |-> "idle"]
    /\ loc' = [t \in Threads |-> NoLoc]
    /\ evt' = [t \in Threads |-> NoEvent]
    /\ outcome' = "none"
    /\ appended' = <<>>
    /\ log' = file_lines
    /\ main' = "L150"
    /\ observer' = "running"
    /\ UNCHANGED <<clock, loaded, classified, graph>>

(***************************************************************************)
(* The other commands and the environment.                                 *)
(***************************************************************************)
\* lines 365-376 with a cooldown: one entry per project is kept
RECURSIVE backfill_entries_debounced(_, _)
backfill_entries_debounced(items, ym) ==
    IF items = <<>> THEN <<>>
    ELSE LET item     == Head(items)
             date_str == item.date_str
             project  == IF item.repo = "" THEN "unknown" ELSE item.repo
             rest     == backfill_entries_debounced(Tail(items), ym)
         IN  IF date_str = NoTs \/ year_month(date_str.date) # ym THEN rest
             ELSE IF \E i \in DOMAIN rest : rest[i].project = project THEN rest
             ELSE <<[day     |-> date_portion(date_str),
                     project |-> project,
                     ts      |-> date_str]>> \o rest

\* run_backfill_github, lines 363-376: the commits of the month asked for
RECURSIVE backfill_entries(_, _)
backfill_entries(items, ym) ==
    IF items = <<>> THEN <<>>
    ELSE LET item     == Head(items)
             date_str == item.date_str
             rest     == backfill_entries(Tail(items), ym)
         IN  IF date_str = NoTs \/ year_month(date_str.date) # ym THEN rest
             ELSE <<[day     |-> date_portion(date_str),
                     project |-> IF item.repo = "" THEN "unknown" ELSE item.repo,
                     ts      |-> date_str]>> \o rest

\* lines 384-389: one line per entry, "Z" written as "+00:00"
backfill_line(e) ==
    json_dumps([date    |-> e.day,
                ts      |-> IF e.ts.suffix = "Z"
                            THEN [e.ts EXCEPT !.suffix = "+00:00"] ELSE e.ts,
                project |-> e.project])

run_backfill_github(items, ym) ==
    LET entries == backfill_entries(items, ym)
    IN  /\ Len(log) + Len(entries) <= MaxLog
        /\ log' = log \o [i \in 1..Len(entries) |-> backfill_line(entries[i])]
        /\ UNCHANGED <<clock, last_log, pc, loc, evt, outcome, appended,
                       loaded, classified,
                   main, observer, graph>>

\* generate_graph: the log is loaded (an exception ends the command) and the
\* report laid out and written
generate_graph ==
    LET activity == load_activity(file_lines)
    IN  /\ loaded' = [ran |-> TRUE, n |-> Len(log),
                      torn |-> Len(file_lines) > Len(log)] @@ activity
        /\ graph' = IF activity.raised # "" THEN graph
                    ELSE layout(activity.by_date, today)
        /\ UNCHANGED <<clock, log, last_log, pc, loc, evt, outcome, appended,
                       classified, main, observer>>

\* a line that reaches the log from another writer: an earlier run, a torn
\* write, an edit, a concatenation of logs
foreign_write(line) ==
    /\ Len(log) < MaxLog
    /\ log' = Append(log, line)
    /\ UNCHANGED <<clock, last_log, pc, loc, evt, outcome, appended,
                   loaded, classified,
                   main, observer, graph>>

\* get_project_name on its own, once, for any root and path
classify(root, path) ==
    /\ ~classified.ran
    /\ classified' = [ran |-> TRUE, root |-> root, path |-> path,
                      project |-> get_project_name(root, path)]
    /\ UNCHANGED <<clock, log, last_log, pc, loc, evt, outcome, appended, loaded,
                   main, observer, graph>>

\* time passes: the clock moves on to the next instant
tick ==
    /\ \E to \in Instants : to > clock
    /\ clock' = CHOOSE to \in Instants :
                    to > clock /\ \A x \in Instants : x > clock => to <= x
    /\ UNCHANGED <<log, last_log, pc, loc, evt, outcome, appended, loaded,
                   classified,
                   main, observer, graph>>

\* the handler on thread t, the event source delivering the events of E
handler(t, E) ==
    \/ \E e \in E : on_created(t, e)
    \/ \E e \in E : on_modified(t, e)
    \/ \E e \in E : on_moved(t, e)
    \/ \E e \in E : on_deleted(t, e)
    \/ record_get(t)
    \/ record_debounce(t)
    \/ log_activity_date(t)
    \/ log_activity_write(t)

environment ==
    \/ restart
    \/ \E items \in BackfillItems, ym \in BackfillMonths : run_backfill_github(items, ym)
    \/ tick

\* the observer dispatches every event on its one thread
Next == handler(1, Events) \/ environment

Spec == Init /\ [][Next]_vars

\* an event source that calls the handler on several threads at once
NextConcurrent ==
    \/ \E t \in Threads : handler(t, BurstEvents)
    \/ tick

SpecConcurrent == Init /\ [][NextConcurrent]_vars

\* the graph command on a log that any writer has left
NextLoad ==
    \/ \E line \in EntryLines \cup ForeignLines : foreign_write(line)
    \/ generate_graph

SpecLoad == Init /\ [][NextLoad]_vars

\* get_project_name applied to every root and path
NextClassify == \E root \in Roots, path \in AllPaths : classify(root, path)

SpecClassify == Init /\ [][NextClassify]_vars

\* the steps of a handler call that has begun: the thread goes on running
proceed(t) ==
    \/ record_get(t)
    \/ record_debounce(t)
    \/ log_activity_date(t)
    \/ log_activity_write(t)

\* one run of the watch loop, whose handler calls run to their end
NextLive == handler(1, BurstEvents) \/ tick

SpecLive == Init /\ [][NextLive]_vars /\ WF_vars(proceed(1))

\* the watch loop with its shutdown and with appends that fail
NextStop ==
    \/ handler(1, BurstEvents)
    \/ \E partial \in BOOLEAN : log_activity_fails(1, partial)
    \/ KeyboardInterrupt
    \/ observer_stop
    \/ observer_join
    \/ restart
    \/ tick

SpecStop == Init /\ [][NextStop]_vars

\* the graph command while the watch loop runs, the line of an append
\* reaching the file whole or in two parts
NextReport ==
    \/ handler(1, BurstEvents)
    \/ log_activity_write_begin(1)
    \/ log_activity_write_end(1)
    \/ generate_graph
    \/ tick

SpecReport == Init /\ [][NextReport]_vars

\* every command that opens the log: the watch loop and its restarts, the
\* backfill, the graph command
NextAppend ==
    \/ handler(1, BurstEvents)
    \/ log_activity_write_begin(1)
    \/ log_activity_write_end(1)
    \/ restart
    \/ \E items \in BackfillItems, ym \in BackfillMonths : run_backfill_github(items, ym)
    \/ generate_graph

SpecAppend == InitAppend /\ [][NextAppend]_vars

\* the graph command on the logs of GraphLogs
SpecGraph == InitGraph /\ [][generate_graph]_vars

(***************************************************************************)
(* The properties stated of the program.                                   *)
(***************************************************************************)
AbsDiff(a, b) == IF a >= b THEN a - b ELSE b - a

\* the path an event is recorded under: where a moved file now is
EventPath(e) == IF e.kind = "moved" THEN e.dest_path ELSE e.src_path

\* r is strictly below q, segment by segment
StrictlyInside(r, q) ==
    /\ Len(r) > Len(q)
    /\ \A i \in 1..Len(q) : r[i] = q[i]

\* C1: within one run of the watch loop, any two records it appends for the
\* same project come from acceptance decisions at least the cooldown apart
\* (records of backfill and of earlier runs are not among `appended`).
C1_CooldownBetweenRecords ==
    \A i, j \in 1..Len(appended) :
        (i < j /\ appended[i].line.project = appended[j].line.project)
            => AbsDiff(appended[j].now, appended[i].now) >= DEBOUNCE_SECONDS

\* two records of one project were appended in this run
C1_Witness ==
    \E i, j \in 1..Len(appended) :
        i < j /\ appended[i].line.project = appended[j].line.project

\* C2: with callbacks on several threads, no two events of one project that
\* arrive less than the cooldown apart are both accepted and both recorded.
C2_NoDoubleAccept ==
    ~ \E i, j \in 1..Len(appended) :
        /\ i # j
        /\ appended[i].line.project = appended[j].line.project
        /\ AbsDiff(appended[i].now, appended[j].now) < DEBOUNCE_SECONDS

\* C3: the debouncer accepts exactly when the project has no lastSeen entry
\* or now - lastSeen[project] >= cooldown, and rejects otherwise.
C3_AcceptsIffAbsentOrElapsed ==
    [][\A t \in Threads :
          (pc[t] = "L122" /\ pc'[t] \in {"idle", "L81"} /\ outcome' # "none")
              => ((pc'[t] = "L81") <=>
                    (\/ loc[t].project \notin DOMAIN last_log
                     \/ loc[t].now - last_log[loc[t].project] >= DEBOUNCE_SECONDS))]_vars

\* C4: every record of the log has a day equal to the date portion of its
\* timestamp.
C4_DayIsDateOfTimestamp ==
    \A i \in 1..Len(log) :
        (log[i].kind = "object" /\ log[i].ts # NoTs)
            => log[i].date = date_portion(log[i].ts)

\* a line is a well-formed record: an object with a day and a project
WellFormed(line) ==
    line.kind = "object" /\ line.date # NoDate /\ line.project # ""

\* the lines the last load read
LinesRead == SubSeq(log, 1, loaded.n)

\* C5: loading never fails on a line that is not a well-formed record; every
\* such line is skipped and the result is that of the log without those lines.
C5_MalformedLinesSkipped ==
    loaded.ran =>
        /\ loaded.raised = ""
        /\ loaded.by_date = load_activity(SelectSeq(LinesRead, WellFormed)).by_date

\* the count of (day, project) in an aggregation, 0 when it is not there
Count(by_date, d, p) ==
    LET i == IndexOfDate(by_date, d)
    IN  IF i = 0 THEN 0
        ELSE LET j == IndexOfProject(by_date[i].projs, p)
             IN  IF j = 0 THEN 0 ELSE by_date[i].projs[j].count

Keys(by_date) ==
    UNION {{<<by_date[i].date, by_date[i].projs[j].project>> :
               j \in 1..Len(by_date[i].projs)} : i \in 1..Len(by_date)}

\* `whole` is what loading `lines` gave; however the lines are cut in two, it
\* is the sum of the loads of the two parts (and raises when one of them does)
SplitsAgree(lines, whole) ==
    \A k \in 0..Len(lines) :
        LET a == load_activity(SubSeq(lines, 1, k))
            b == load_activity(SubSeq(lines, k + 1, Len(lines)))
        IN  IF a.raised # "" \/ b.raised # ""
            THEN whole.raised = (IF a.raised # "" THEN a.raised ELSE b.raised)
            ELSE /\ whole.raised = ""
                 /\ Keys(whole.by_date) = Keys(a.by_date) \cup Keys(b.by_date)
                 /\ \A key \in Keys(whole.by_date) :
                       Count(whole.by_date, key[1], key[2])
                         = Count(a.by_date, key[1], key[2])
                           + Count(b.by_date, key[1], key[2])

\* C6: the load of a log is the per-(day, project) sum of the loads of any two
\* logs it is the concatenation of, and a load leaves the log as it was.
C6_AggregationHomomorphic ==
    [][loaded' # loaded
          => /\ log' = log
             /\ loaded'.n = Len(log)
             /\ SplitsAgree(log, loaded')]_vars

\* a load counted two lines of the same day and project
C6_Witness ==
    /\ loaded.ran
    /\ loaded.raised = ""
    /\ \E key \in Keys(loaded.by_date) :
          Count(loaded.by_date, key[1], key[2]) >= 2

\* C7: for a root and a path that resolve, get_project_name returns the first
\* segment below the root when the resolved path is strictly inside the
\* resolved root, and None when it is the root itself or lies outside it (a
\* sibling whose name starts with the root's name included); no exception
\* leaves it, every result being a segment or None.
C7_FirstSegmentBelowRoot ==
    (/\ classified.ran
     /\ resolve(classified.path) # OSError
     /\ resolve(classified.root) # OSError)
        => LET r == resolve(classified.path)
               q == resolve(classified.root)
           IN  IF StrictlyInside(r, q)
               THEN classified.project = r[Len(q) + 1]
               ELSE classified.project = None

\* a sibling of the root whose name starts with the root's name was classified
C7_Witness ==
    /\ classified.ran
    /\ classified.root = <<"dev">>
    /\ classified.path = <<"dev2", "alpha">>
    /\ classified.project = None

\* C8: every record the watch loop appended is for a file event whose path
\* resolves, is neither output file, has no ignored segment, lies strictly
\* inside the root, and whose project (the record's) is not an ignored one.
C8_NoRecordForFilteredEvent ==
    \A i \in 1..Len(appended) :
        LET e == appended[i].evt
            r == resolve(EventPath(e))
            q == resolve(dev_path)
        IN  /\ ~e.is_directory
            /\ EventPath(e) # NoPath
            /\ r # OSError
            /\ r \notin {resolve(log_path), resolve(graph_path)}
            /\ \A k \in 1..Len(r) : r[k] \notin IGNORED_PATH_PARTS
            /\ StrictlyInside(r, q)
            /\ r[Len(q) + 1] \notin IGNORED_PROJECTS
            /\ appended[i].line.project = r[Len(q) + 1]

\* a noise event was dropped while the debouncer held an acceptance
C8_Witness == outcome = "noise" /\ DOMAIN last_log # {}

SkippedOutcomes ==
    {"directory", "noise", "not_applicable", "ignored_project", "rejected"}

\* C9: a handler call that ends with the event skipped or rejected leaves
\* _last_log and the log as they were.
C9_SkippedEventChangesNothing ==
    [][(/\ outcome' \in SkippedOutcomes
        /\ \/ outcome' # outcome
           \/ \E t \in Threads : pc[t] # "idle" /\ pc'[t] = "idle")
          => UNCHANGED <<last_log, log>>]_vars

\* an event was rejected by the debouncer, which holds an acceptance
C9_Witness == outcome = "rejected" /\ DOMAIN last_log # {}

\* C10: accepting an event for project P sets _last_log[P] to the acceptance
\* time and nothing else; the call then appends exactly one line, carrying P.
C10_AcceptedEventEffects ==
    [][\A t \in Threads :
          /\ (pc[t] = "L121" /\ pc'[t] = "L122") => UNCHANGED <<last_log, log>>
          /\ (pc[t] = "L122" /\ pc'[t] = "L81")
                => /\ DOMAIN last_log' = DOMAIN last_log \cup {loc[t].project}
                   /\ last_log'[loc[t].project] = loc[t].now
                   /\ \A q \in DOMAIN last_log \ {loc[t].project} :
                         last_log'[q] = last_log[q]
                   /\ log' = log
          /\ (pc[t] = "L81" /\ pc'[t] = "L82") => UNCHANGED <<last_log, log>>
          /\ (pc[t] = "L82" /\ pc'[t] = "idle" /\ outcome' = "logged")
                => /\ Len(log') = Len(log) + 1
                   /\ SubSeq(log', 1, Len(log)) = log
                   /\ log'[Len(log')].project = loc[t].project
                   /\ last_log' = last_log]_vars

\* a record was appended while the debouncer holds two projects
C10_Witness == outcome = "logged" /\ Cardinality(DOMAIN last_log) = 2

\* C11: the log is append-only: whatever step the watch loop, a restart, the
\* backfill or the graph command takes, the log before the step is a prefix
\* of the log after it.
C11_LogIsAppendOnly == [][IsPrefix(log, log')]_vars

\* the watch loop appended to a log that held a line already, and the log
\* has been loaded for a report
C11_Witness ==
    /\ Len(log) >= 2
    /\ appended # <<>>
    /\ appended[Len(appended)].line = log[Len(log)]
    /\ loaded.ran

\* C12: once Ctrl+C has interrupted the main thread, the handler takes up no
\* further event and makes no debounce decision (a call that has reached
\* log_activity may finish its append); and when run_watch returns the
\* observer has been stopped and no handler call is in progress.
C12_NoEventAfterStopSignal ==
    [][/\ (main # "L150" /\ main' # "L150")
            => \A t \in Threads :
                  /\ ~(pc[t] = "idle" /\ pc'[t] # "idle")
                  /\ ~(pc[t] = "L122" /\ pc'[t] # "L122")
       /\ main' = "exited"
            => (observer' # "running" /\ \A t \in Threads : pc'[t] = "idle")]_vars

\* the cells of the last report that show activity
ActiveCells ==
    UNION {{graph.month_rows[r].cells[d] : d \in DOMAIN graph.month_rows[r].cells} :
              r \in DOMAIN graph.month_rows} \ {c \in
        UNION {{graph.month_rows[r].cells[d] : d \in DOMAIN graph.month_rows[r].cells} :
                  r \in DOMAIN graph.month_rows} : c.class = "none"}

\* where project p stands in the legend, which is the order of the colours
LegendPosition(p) == CHOOSE k \in DOMAIN graph.legend : graph.legend[k].name = p

\* C13: in every cell with activity the projects of the tooltip, and the
\* bands after them, are in descending order of count, projects of equal
\* count in the order of the legend (the first-appearance order that gives
\* the projects their colours).
C13_CountThenFirstAppearance ==
    \A c \in ActiveCells :
        /\ \A i, j \in DOMAIN c.tip :
              i < j => \/ c.tip[i].count > c.tip[j].count
                       \/ /\ c.tip[i].count = c.tip[j].count
                          /\ LegendPosition(c.tip[i].project)
                               < LegendPosition(c.tip[j].project)
        /\ c.gradient =>
              \A i \in DOMAIN c.tip :
                  c.stops[2 * i].color.hue
                      = graph.legend[LegendPosition(c.tip[i].project)].color.hue

\* every day cell of the last report
AllCells ==
    UNION {{graph.month_rows[r].cells[d] : d \in DOMAIN graph.month_rows[r].cells} :
              r \in DOMAIN graph.month_rows}

\* the number of records of day d in the log
DayTotal(d) == Cardinality({i \in DOMAIN log : log[i].date = d})

\* the colours a cell is painted with
CellColors(c) ==
    IF c.gradient THEN {c.stops[k].color : k \in DOMAIN c.stops} ELSE {c.color}

\* C14: with T the number of records of a day, its cell has tier high when
\* T >= 10, mid when 3 <= T < 10, low when 0 < T < 3 (and shows no activity
\* when T = 0); its colours are the light ones exactly when the tier is high.
C14_TierFromDayTotal ==
    \A c \in AllCells :
        LET T == DayTotal(c.date)
        IN  /\ T = 0 <=> c.class = "none"
            /\ T >= 10 <=> c.class = "high"
            /\ (3 <= T /\ T < 10) <=> c.class = "mid"
            /\ (0 < T /\ T < 3) <=> c.class = "low"
            /\ T > 0 => \A col \in CellColors(c) :
                            col.lightness = 55 <=> c.class = "high"

\* 8 records of alpha and 2 of beta on one day: tier high, two bands
C14_Witness ==
    \E c \in AllCells :
        /\ c.class = "high"
        /\ c.tip = <<[project |-> "alpha", count |-> 8],
                     [project |-> "beta", count |-> 2]>>
        /\ c.gradient

\* months counted from year 0
MonthNumber(ym) == 12 * ym[1] + ym[2]

\* the earliest day of the log
EarliestDay == CHOOSE d \in {log[i].date : i \in DOMAIN log} :
                   \A i \in DOMAIN log : d <= log[i].date

\* C15: the report has one row per month, in order, from the month of the
\* earliest day of the log (of today minus 365 days when the log is empty)
\* through the month of today; a row has one cell per day of its month; for
\* an empty log no cell shows activity and the legend is empty.
C15_OneRowPerMonth ==
    graph.ran =>
        LET rows  == graph.month_rows
            first == IF log = <<>> THEN graph.today - 365 ELSE EarliestDay
            from  == MonthNumber(year_month(first))
            to    == MonthNumber(year_month(graph.today))
        IN  /\ graph.today = clock \div 86400
            /\ Len(rows) = (IF to >= from THEN to - from + 1 ELSE 0)
            /\ \A k \in DOMAIN rows :
                  /\ MonthNumber(<<rows[k].year, rows[k].month>>) = from + k - 1
                  /\ \A d \in DOMAIN rows[k].cells :
                        /\ year_month(rows[k].cells[d].date)
                               = <<rows[k].year, rows[k].month>>
                        /\ d > 1 => rows[k].cells[d].date
                                       = rows[k].cells[d - 1].date + 1
                  /\ Len(rows[k].cells) >= 28
                  /\ year_month(rows[k].cells[1].date - 1)
                        # <<rows[k].year, rows[k].month>>
                  /\ year_month(rows[k].cells[Len(rows[k].cells)].date + 1)
                        # <<rows[k].year, rows[k].month>>
            /\ log = <<>> => /\ \A c \in AllCells : c.class = "none"
                             /\ graph.legend = <<>>

\* the report of an empty log on 2024-03-15: 2023-03 through 2024-03
C15_Witness ==
    /\ graph.ran
    /\ log = <<>>
    /\ year_month(graph.today) = <<2024, 3>>
    /\ Len(graph.month_rows) = 13
    /\ graph.month_rows[1].year = 2023
    /\ graph.month_rows[1].month = 3
    /\ graph.month_rows[13].year = 2024
    /\ graph.month_rows[13].month = 3

\* the number of records of day d and project p in the log
DayProjectTotal(d, p) ==
    Cardinality({i \in DOMAIN log : log[i].date = d /\ log[i].project = p})

\* C16: a cell of several projects has one band per project, in the order of
\* the tooltip: with T the records of the day, band i runs from 100/T times
\* the records of the projects before it to 100/T times those and its own,
\* so the first band starts at 0%, the last ends at 100%, each band is as
\* wide as its project's share and starts where the band before it ends.
C16_BandsAreProportional ==
    \A c \in ActiveCells :
        LET T == DayTotal(c.date)
            n == Len(c.tip)
        IN  /\ c.gradient <=> n > 1
            /\ c.gradient =>
                  /\ Len(c.stops) = 2 * n
                  /\ c.stops[1].pct.num = 0
                  /\ c.stops[2 * n].pct.num = 100 * T
                  /\ \A k \in DOMAIN c.stops : c.stops[k].pct.den = T
                  /\ \A i \in 1..n :
                        /\ c.stops[2 * i].pct.num - c.stops[2 * i - 1].pct.num
                              = 100 * DayProjectTotal(c.date, c.tip[i].project)
                        /\ c.stops[2 * i].color = c.stops[2 * i - 1].color
                        /\ i < n => c.stops[2 * i + 1].pct = c.stops[2 * i].pct

\* a cell of three bands, of 8, 1 and 1 records
C16_Witness ==
    \E c \in ActiveCells :
        /\ c.gradient
        /\ Len(c.tip) = 3
        /\ c.tip[1].count = 8
        /\ c.stops[2].pct = [num |-> 800, den |-> 10]
        /\ c.stops[4].pct = [num |-> 900, den |-> 10]

\* a commit that has a date, in the month asked for
InMonth(item, ym) ==
    item.date_str # NoTs /\ year_month(item.date_str.date) = ym

\* the record of a commit: its day, its repository ("unknown" without a
\* name) and its timestamp with "Z" spelt "+00:00"
RecordOfCommit(item) ==
    [kind    |-> "object",
     date    |-> item.date_str.date,
     ts      |-> [date   |-> item.date_str.date,
                  suffix |-> IF item.date_str.suffix = "Z" THEN "+00:00"
                             ELSE item.date_str.suffix],
     project |-> IF item.repo = "" THEN "unknown" ELSE item.repo]

\* C17: a backfill run appends one record for every commit supplied that
\* falls in the month asked for, in the order supplied, whatever the log and
\* _last_log hold; it leaves _last_log and the handler as they were, and the
\* log too when no commit matches.
C17_BackfillAppendsEveryCommit ==
    [][\A items \in BackfillItems, ym \in BackfillMonths :
          run_backfill_github(items, ym) =>
              LET matching == {i \in DOMAIN items : InMonth(items[i], ym)}
              IN  /\ Len(log') = Len(log) + Cardinality(matching)
                  /\ SubSeq(log', 1, Len(log)) = log
                  /\ \A i \in matching :
                        log'[Len(log) + Cardinality({j \in matching : j <= i})]
                            = RecordOfCommit(items[i])
                  /\ UNCHANGED <<last_log, pc, loc, appended>>]_vars

\* the log holds two backfilled records of one project and one day while the
\* watch loop holds an acceptance
C17_Witness ==
    /\ last_log # <<>>
    /\ \E i, j \in DOMAIN log :
          /\ i < j
          /\ log[i] = log[j]
          /\ log[i].ts.suffix = "+00:00"

\* C18: when the append of an accepted event fails, the exception leaves the
\* handler and ends the observer thread with no record written for the event
\* (at most the part of a line that got out); from then on, until the
\* watcher is started again, no event is taken up, nothing is appended and
\* _last_log stays as it is: the append is not tried again.
C18_WriteFailureIsFatal ==
    [][/\ \A t \in Threads :
             (pc[t] = "L82" /\ pc'[t] = "idle" /\ outcome' = "raised")
                => /\ observer' = "dead"
                   /\ appended' = appended
                   /\ log' \in {log, Append(log, Malformed("truncated"))}
       /\ (outcome = "raised" /\ main' = main /\ observer' = observer)
             => /\ observer = "dead"
                /\ UNCHANGED <<pc, evt, loc, outcome, appended, last_log, log>>]_vars

\* an append failed and the cooldown of its project has since run out
C18_Witness ==
    /\ outcome = "raised"
    /\ observer = "dead"
    /\ appended = <<>>
    /\ \E p \in DOMAIN last_log : clock - last_log[p] >= DEBOUNCE_SECONDS

\* C19: a load that runs while the watch loop appends ends without an
\* exception and counts every line that was whole in the file once, under
\* its own day and project; the line being written is among them when it was
\* whole and is skipped when only a part of it was there.
C19_ReportDuringAppend ==
    [][loaded' # loaded =>
          /\ loaded'.raised = ""
          /\ Keys(loaded'.by_date)
                = {<<log[i].date, log[i].project>> : i \in DOMAIN log}
          /\ \A key \in Keys(loaded'.by_date) :
                Count(loaded'.by_date, key[1], key[2])
                    = DayProjectTotal(key[1], key[2])]_vars

\* a load found a part of a line after a whole record, and counted the record
C19_Witness ==
    /\ loaded.ran
    /\ loaded.torn
    /\ loaded.raised = ""
    /\ loaded.n >= 1
    /\ loaded.by_date # <<>>

\* the event thread t is handling comes a cooldown or more after every
\* acceptance of its project in this run, of which there is one
PastCooldown(t) ==
    /\ \E i \in DOMAIN appended : appended[i].line.project = loc[t].project
    /\ \A i \in DOMAIN appended :
          appended[i].line.project = loc[t].project
              => loc[t].now >= appended[i].now + DEBOUNCE_SECONDS

\* C20: the window runs from the last acceptance: an event of a project that
\* comes a cooldown or more after the last acceptance of the project is
\* accepted, whatever was rejected in between, and its record is written.
C20_WindowIsFixed ==
    /\ [][\A t \in Threads :
             (pc[t] = "L122" /\ pc'[t] # "L122" /\ outcome' # "none"
                /\ PastCooldown(t)) => pc'[t] = "L81"]_vars
    /\ (pc[1] = "L121" /\ PastCooldown(1) /\ Len(log) < MaxLog)
          ~> (outcome = "logged")

\* two acceptances of one project exactly a cooldown apart
C20_Witness ==
    \E i, j \in DOMAIN appended :
        /\ appended[i].line.project = appended[j].line.project
        /\ appended[j].now = appended[i].now + DEBOUNCE_SECONDS

====
